---- MODULE Spec2Model ----
(***************************************************************************)
(* Model of promptflow/evals/evaluate/_lazy_load.py: the LazyLoader proxy  *)
(* (a types.ModuleType subclass that imports its module on the first       *)
(* attribute miss) together with the parts of the Python runtime it talks  *)
(* to: sys.modules, the parent namespace dict, module __dict__s and        *)
(* importlib.import_module.                                                *)
(*                                                                         *)
(* Every Python value is a string here: "Absent" marks a key that is not   *)
(* in a dict, "None" is None, "mod_a"/"mod_b" are the two module objects,  *)
(* "ns" is the parent namespace dict, the rest are str and plain values.   *)
(***************************************************************************)
EXTENDS Naturals, FiniteSets, Sequences, TLC

\* ---------------------------------------------------------------- bounds
MaxCalls == 4        \* operations performed in one behaviour
NumVals  == 2        \* distinct plain attribute values v1..vN

\* -------------------------------------------------------------- universe
Absent == "Absent"
None   == "None"

Proxies   == {"p", "q"}
ModNames  == {"a", "b", "g", "f"}       \* names handed to LazyLoader(…, name)
BindNames == {"a", "x"}                 \* names handed as local_name
RegKeys   == ModNames \cup BindNames      \* keys of sys.modules
NsKeys    == BindNames \cup {"keep"}      \* keys of the parent namespace
Objs      == {"mod_a", "mod_b", "mod_f"}  \* module objects the imports create
Threads   == {"t1", "t2"}               \* threads calling _load on one proxy
Vals      == {"v" \o ToString(i) : i \in 1..NumVals}
Attrs     == {"__name__", "__doc__", "_local_name", "_parent_module_globals",
              "_module", "zeros"}
ReadNames == {"zeros", "__doc__", "_local_name"}   \* names read through a proxy

EmptyDict == [k \in Attrs |-> Absent]

\* What the import system finds for a name that is not in sys.modules yet.
Disk(n) ==
    IF n \in {"a", "b"} THEN "ok"
    ELSE IF n = "f" THEN "raises"           \* found, its body raises
    ELSE "missing"                          \* no such module

ObjOf(n) == IF n = "a" THEN "mod_a" ELSE IF n = "f" THEN "mod_f" ELSE "mod_b"

\* The __dict__ a module can have once its body has run.  Module a is an
\* alias-style module: its __name__ may differ from the name it is imported
\* under (os.path is posixpath).  Module b may define names that the proxy
\* also uses for itself.
Bodies(n) ==
    IF n = "a"
    THEN { [k \in Attrs |->
              CASE k = "__name__" -> nm
                [] k = "__doc__"  -> "doc"
                [] k = "zeros"    -> z
                [] OTHER          -> Absent]
           : nm \in {"a", "b"}, z \in Vals \cup {Absent} }
    ELSE { [k \in Attrs |->
              CASE k = "__name__"    -> n
                [] k = "__doc__"     -> "doc"
                [] k = "zeros"       -> "v1"
                [] k = "_module"     -> m
                [] k = "_local_name" -> l
                [] OTHER             -> Absent]
           : m \in {Absent, "v1"}, l \in {Absent, "x"} }

\* Python truth value of the values stored in _module.
Truthy(v) == v \notin {Absent, None}

\* An update that only adds the keys the dict lacks.
DictUpdate_keepExisting(d, other) ==
    [k \in Attrs |-> IF d[k] # Absent THEN d[k] ELSE other[k]]

\* dict.update(other): every key of other replaces or adds.
DictUpdate(d, other) ==
    [k \in Attrs |-> IF other[k] # Absent THEN other[k] ELSE d[k]]

VARIABLES
    registry,          \* sys.modules
    moddict,           \* __dict__ of each module object
    targetNamespace,   \* the parent_module_globals dict
    pdict,             \* __dict__ of each LazyLoader
    created,           \* the LazyLoaders constructed so far
    last,              \* the last call and what it gave its caller
    first,             \* history: what each proxy's first successful _load returned
    loadedAs,          \* history: the key and module of each proxy's latest load
    accessed,          \* history: proxies whose __getattr__ or __dir__ has returned
    calls,             \* number of calls made
    deferred,          \* module objects whose body a lazy loader has yet to run
    utilLoaded,        \* importlib.util has been imported: importlib has the attribute
    pc,                \* where each thread stands in _load
    tmod,              \* each thread's local variable module
    tpath              \* history: how each thread went through _load

vars == <<registry, moddict, targetNamespace, pdict, created, last, first,
          loadedAs, accessed, calls, deferred, utilLoaded, pc, tmod, tpath>>

proxyVars  == <<targetNamespace, pdict, created, first, loadedAs, accessed>>
threadVars == <<pc, tmod, tpath>>

NoCall ==
    [op |-> "none", p |-> "none", item |-> Absent, outcome |-> "none",
     value |-> Absent, names |-> {}, module |-> Absent, loadCalled |-> FALSE, invoked |-> FALSE,
     wrote |-> FALSE, modname |-> Absent, binding |-> Absent,
     cached |-> FALSE, inTable |-> FALSE, hadLoaded |-> FALSE,
     ranBody |-> FALSE]

Init ==
    /\ registry = [k \in RegKeys |-> Absent]
    /\ moddict = [o \in Objs |-> EmptyDict]
    /\ targetNamespace = [k \in NsKeys |-> IF k = "keep" THEN "v1" ELSE Absent]
    /\ pdict = [p \in Proxies |-> EmptyDict]
    /\ created = {}
    /\ last = NoCall
    /\ first = [p \in Proxies |-> Absent]
    /\ loadedAs = [p \in Proxies |-> [key |-> Absent, mod |-> Absent]]
    /\ accessed = {}
    /\ calls = 0
    /\ deferred = {}
    /\ utilLoaded = FALSE
    /\ pc = [t \in Threads |-> "idle"]
    /\ tmod = [t \in Threads |-> Absent]
    /\ tpath = [t \in Threads |-> "none"]

\* ------------------------------------------------- the import mechanism
\* importlib.import_module(n).  An entry of sys.modules is returned as it is,
\* but the import system reads its __spec__ first, and on a module a lazy
\* loader has armed that read runs the body: the module is an ordinary one
\* afterwards, and a body that raises makes the call raise with the module
\* still registered.  Without an entry the module is located, created,
\* registered and executed; a module that is missing or whose body raises
\* leaves sys.modules as it was.
import_module(n, body) ==
    LET o == registry[n] IN
    IF o # Absent /\ o \in deferred
    THEN IF Disk(moddict[o]["__name__"]) = "ok"
         THEN [ok |-> TRUE, err |-> "none", module |-> o, reg |-> registry,
               md |-> [moddict EXCEPT ![o] = body], df |-> deferred \ {o}]
         ELSE [ok |-> FALSE, err |-> "BodyError", module |-> Absent,
               reg |-> registry, md |-> moddict, df |-> deferred \ {o}]
    ELSE IF o # Absent
    THEN [ok |-> TRUE, err |-> "none", module |-> o,
          reg |-> registry, md |-> moddict, df |-> deferred]
    ELSE IF Disk(n) = "ok"
    THEN [ok |-> TRUE, err |-> "none", module |-> ObjOf(n),
          reg |-> [registry EXCEPT ![n] = ObjOf(n)],
          md |-> [moddict EXCEPT ![ObjOf(n)] = body], df |-> deferred]
    ELSE [ok |-> FALSE,
          err |-> IF Disk(n) = "raises" THEN "BodyError" ELSE "ModuleNotFoundError",
          module |-> Absent, reg |-> registry, md |-> moddict, df |-> deferred]

\* getattr(v, item, None): a missing name gives None instead of raising.
GetAttrOn_default(v, item, md) ==
    IF v \in Objs /\ md[v][item] # Absent THEN md[v][item]
    ELSE IF item = "__doc__" THEN "doc" ELSE None

\* getattr(v, item) for a value _load returned: a module object answers from
\* its __dict__, any other value has none of the names of Attrs but __doc__.
GetAttrOn(v, item, md) ==
    IF v \in Objs THEN md[v][item]
    ELSE IF item = "__doc__" THEN "doc" ELSE Absent

\* dir(v), restricted to Attrs.
DirOf(v, md) ==
    IF v \in Objs THEN {k \in Attrs : md[v][k] # Absent} ELSE {"__doc__"}

\* The bodies an import of n can run in the current state: a choice is only
\* made when the import really runs a body, that of a module it creates or
\* that of a registered module a lazy loader has armed.
BodyChoices(n) ==
    IF n \in RegKeys /\ registry[n] = Absent /\ Disk(n) = "ok"
    THEN Bodies(n)
    ELSE IF n \in RegKeys /\ registry[n] \in deferred
            /\ Disk(moddict[registry[n]]["__name__"]) = "ok"
    THEN Bodies(moddict[registry[n]]["__name__"])
    ELSE {EmptyDict}

\* ------------------------------------------------------------ LazyLoader
\* LazyLoader.__init__: the two private fields, _module = None, then
\* ModuleType.__init__(str(name)), which sets __name__ and __doc__ = None.
InitDict(local_name, name) ==
    [k \in Attrs |->
       CASE k = "_local_name"            -> local_name
         [] k = "_parent_module_globals" -> "ns"
         [] k = "_module"                -> None
         [] k = "__name__"               -> name
         [] k = "__doc__"                -> None
         [] OTHER                        -> Absent]

\* _load with the sys.modules entry written under __name__ instead of
\* _local_name.
Load_registersModuleName(p, body) ==
    LET d == pdict[p] IN
    IF Truthy(d["_module"])
    THEN [outcome |-> "value", value |-> d["_module"], invoked |-> FALSE,
          wrote |-> FALSE, reg |-> registry, md |-> moddict,
          ns |-> targetNamespace, pd |-> pdict, df |-> deferred]
    ELSE LET imp == import_module(d["__name__"], body) IN
         IF ~imp.ok
         THEN [outcome |-> imp.err, value |-> Absent, invoked |-> TRUE,
               wrote |-> FALSE, reg |-> registry, md |-> moddict,
               ns |-> targetNamespace, pd |-> pdict, df |-> imp.df]
         ELSE [outcome |-> "value", value |-> imp.module, invoked |-> TRUE,
               wrote |-> TRUE,
               reg |-> [imp.reg EXCEPT ![d["__name__"]] = imp.module],
               md |-> imp.md,
               ns |-> [targetNamespace EXCEPT ![d["_local_name"]] = imp.module],
               pd |-> [pdict EXCEPT
                         ![p] = DictUpdate(d, imp.md[imp.module])],
               df |-> imp.df]

\* _load binding the module in the namespace under __name__ when the
\* namespace has that key.
Load_bindsModuleName(p, body) ==
    LET d == pdict[p]
        key == IF d["__name__"] \in NsKeys THEN d["__name__"]
               ELSE d["_local_name"]
    IN
    IF Truthy(d["_module"])
    THEN [outcome |-> "value", value |-> d["_module"], invoked |-> FALSE,
          wrote |-> FALSE, reg |-> registry, md |-> moddict,
          ns |-> targetNamespace, pd |-> pdict, df |-> deferred]
    ELSE LET imp == import_module(d["__name__"], body) IN
         IF ~imp.ok
         THEN [outcome |-> imp.err, value |-> Absent, invoked |-> TRUE,
               wrote |-> FALSE, reg |-> registry, md |-> moddict,
               ns |-> targetNamespace, pd |-> pdict, df |-> imp.df]
         ELSE [outcome |-> "value", value |-> imp.module, invoked |-> TRUE,
               wrote |-> TRUE,
               reg |-> [imp.reg EXCEPT ![d["_local_name"]] = imp.module],
               md |-> imp.md,
               ns |-> [targetNamespace EXCEPT ![key] = imp.module],
               pd |-> [pdict EXCEPT
                         ![p] = DictUpdate(d, imp.md[imp.module])],
               df |-> imp.df]

\* _load reserving the namespace entry before the import is tried.
Load_bindsBeforeImport(p, body) ==
    LET d == pdict[p] IN
    IF Truthy(d["_module"])
    THEN [outcome |-> "value", value |-> d["_module"], invoked |-> FALSE,
          wrote |-> FALSE, reg |-> registry, md |-> moddict,
          ns |-> targetNamespace, pd |-> pdict, df |-> deferred]
    ELSE LET imp == import_module(d["__name__"], body) IN
         IF ~imp.ok
         THEN [outcome |-> imp.err, value |-> Absent, invoked |-> TRUE,
               wrote |-> FALSE, reg |-> registry, md |-> moddict,
               ns |-> [targetNamespace EXCEPT ![d["_local_name"]] = None],
               pd |-> pdict, df |-> imp.df]
         ELSE [outcome |-> "value", value |-> imp.module, invoked |-> TRUE,
               wrote |-> TRUE,
               reg |-> [imp.reg EXCEPT ![d["_local_name"]] = imp.module],
               md |-> imp.md,
               ns |-> [targetNamespace EXCEPT ![d["_local_name"]] = imp.module],
               pd |-> [pdict EXCEPT
                         ![p] = DictUpdate(d, imp.md[imp.module])],
               df |-> imp.df]

\* _load importing _local_name instead of __name__.
Load_importsLocalName(p, body) ==
    LET d == pdict[p] IN
    IF Truthy(d["_module"])
    THEN [outcome |-> "value", value |-> d["_module"], invoked |-> FALSE,
          wrote |-> FALSE, reg |-> registry, md |-> moddict,
          ns |-> targetNamespace, pd |-> pdict, df |-> deferred]
    ELSE LET imp == import_module(d["_local_name"], body) IN
         IF ~imp.ok
         THEN [outcome |-> imp.err, value |-> Absent, invoked |-> TRUE,
               wrote |-> FALSE, reg |-> registry, md |-> moddict,
               ns |-> targetNamespace, pd |-> pdict, df |-> imp.df]
         ELSE [outcome |-> "value", value |-> imp.module, invoked |-> TRUE,
               wrote |-> TRUE,
               reg |-> [imp.reg EXCEPT ![d["_local_name"]] = imp.module],
               md |-> imp.md,
               ns |-> [targetNamespace EXCEPT ![d["_local_name"]] = imp.module],
               pd |-> [pdict EXCEPT
                         ![p] = DictUpdate(d, imp.md[imp.module])],
               df |-> imp.df]

\* LazyLoader._load, as a function of the current state: what it returns or
\* raises and the sys.modules, module dicts, namespace and proxy dicts it
\* leaves behind.  Nothing in it assigns self._module.
_load(p, body) ==
    LET d == pdict[p] IN
    IF Truthy(d["_module"])
    THEN [outcome |-> "value", value |-> d["_module"], invoked |-> FALSE,
          wrote |-> FALSE, reg |-> registry, md |-> moddict,
          ns |-> targetNamespace, pd |-> pdict, df |-> deferred]
    ELSE LET imp == import_module(d["__name__"], body) IN
         IF ~imp.ok
         THEN [outcome |-> imp.err, value |-> Absent, invoked |-> TRUE,
               wrote |-> FALSE, reg |-> registry, md |-> moddict,
               ns |-> targetNamespace, pd |-> pdict, df |-> imp.df]
         ELSE [outcome |-> "value", value |-> imp.module, invoked |-> TRUE,
               wrote |-> TRUE,
               reg |-> [imp.reg EXCEPT ![d["_local_name"]] = imp.module],
               md |-> imp.md,
               ns |-> [targetNamespace EXCEPT ![d["_local_name"]] = imp.module],
               pd |-> [pdict EXCEPT
                         ![p] = DictUpdate(d, imp.md[imp.module])],
               df |-> imp.df]

\* LazyLoader.__repr__
describe(p) ==
    IF ~Truthy(pdict[p]["_module"]) THEN "NotLoadedYet" ELSE pdict[p]["_module"]

\* The part of the call record every proxy call fills in from the pre-state.
CallOn(op, p, item) ==
    [NoCall EXCEPT !.op = op, !.p = p, !.item = item,
                   !.modname = pdict[p]["__name__"],
                   !.binding = pdict[p]["_local_name"],
                   !.cached = Truthy(pdict[p]["_module"]),
                   !.inTable = (item # Absent /\ pdict[p][item] # Absent),
                   !.hadLoaded = (first[p] # Absent)]

\* The state a call of _load leaves, and the history of first results.
Loaded(p, r) ==
    /\ registry' = r.reg
    /\ moddict' = r.md
    /\ targetNamespace' = r.ns
    /\ pdict' = r.pd
    /\ deferred' = r.df
    /\ first' = IF first[p] = Absent /\ r.outcome = "value"
                THEN [first EXCEPT ![p] = r.value] ELSE first
    /\ loadedAs' = IF r.wrote
                   THEN [loadedAs EXCEPT ![p] = [key |-> pdict[p]["_local_name"],
                                                 mod |-> r.value]]
                   ELSE loadedAs

\* A constructor that imports the module at once and binds it.
Create_eager(p, local_name, name) ==
    /\ calls < MaxCalls
    /\ p \notin created
    /\ created' = created \cup {p}
    /\ pdict' = [pdict EXCEPT ![p] = InitDict(local_name, name)]
    /\ \E b \in BodyChoices(name) :
         LET imp == import_module(name, b) IN
           /\ registry' = imp.reg
           /\ moddict' = imp.md
           /\ deferred' = imp.df
           /\ targetNamespace' =
                 IF imp.ok
                 THEN [targetNamespace EXCEPT ![local_name] = imp.module]
                 ELSE targetNamespace
    /\ last' = [NoCall EXCEPT !.op = "create", !.p = p, !.modname = name,
                              !.binding = local_name]
    /\ calls' = calls + 1
    /\ UNCHANGED <<first, loadedAs, accessed>>

\* LazyLoader(local_name, parent_module_globals, name)
Create(p, local_name, name) ==
    /\ calls < MaxCalls
    /\ p \notin created
    /\ created' = created \cup {p}
    /\ pdict' = [pdict EXCEPT ![p] = InitDict(local_name, name)]
    /\ last' = [NoCall EXCEPT !.op = "create", !.p = p, !.modname = name,
                              !.binding = local_name]
    /\ calls' = calls + 1
    /\ UNCHANGED <<registry, moddict, targetNamespace, first, loadedAs,
                   accessed, deferred>>

\* proxy._load()
Resolve(p, body) ==
    /\ calls < MaxCalls
    /\ p \in created
    /\ LET r == _load(p, body) IN
         /\ Loaded(p, r)
         /\ last' = [CallOn("resolve", p, Absent) EXCEPT
                       !.outcome = r.outcome, !.value = r.value,
                       !.module = r.value, !.loadCalled = TRUE, !.invoked = r.invoked,
                       !.wrote = r.wrote]
    /\ calls' = calls + 1
    /\ UNCHANGED <<created, accessed>>

\* An attribute read whose __getattr__ catches the import error and gives
\* None.
GetAttribute_swallow(p, item, body) ==
    /\ calls < MaxCalls
    /\ p \in created
    /\ IF pdict[p][item] # Absent
       THEN /\ last' = [CallOn("getAttribute", p, item) EXCEPT
                          !.outcome = "value", !.value = pdict[p][item]]
            /\ UNCHANGED <<registry, moddict, targetNamespace, pdict, first,
                           loadedAs, accessed, deferred>>
       ELSE LET r == _load(p, body)
                v == GetAttrOn(r.value, item, r.md)
                out == IF r.outcome # "value" THEN "value"
                       ELSE IF v = Absent THEN "AttributeError" ELSE "value"
            IN /\ Loaded(p, r)
               /\ last' = [CallOn("getAttribute", p, item) EXCEPT
                             !.outcome = out,
                             !.value = IF r.outcome # "value" THEN None
                                       ELSE IF out = "value" THEN v ELSE Absent,
                             !.module = r.value, !.loadCalled = TRUE,
                             !.invoked = r.invoked, !.wrote = r.wrote]
               /\ accessed' = IF out = "value" THEN accessed \cup {p}
                              ELSE accessed
    /\ calls' = calls + 1
    /\ UNCHANGED created

\* proxy.<item>: the proxy's own __dict__ answers when it has the name;
\* __getattr__ runs only on a miss, calls _load and reads the result.
GetAttribute(p, item, body) ==
    /\ calls < MaxCalls
    /\ p \in created
    /\ IF pdict[p][item] # Absent
       THEN /\ last' = [CallOn("getAttribute", p, item) EXCEPT
                          !.outcome = "value", !.value = pdict[p][item]]
            /\ UNCHANGED <<registry, moddict, targetNamespace, pdict, first,
                           loadedAs, accessed, deferred>>
       ELSE LET r == _load(p, body)
                v == GetAttrOn(r.value, item, r.md)
                out == IF r.outcome # "value" THEN r.outcome
                       ELSE IF v = Absent THEN "AttributeError" ELSE "value"
            IN /\ Loaded(p, r)
               /\ last' = [CallOn("getAttribute", p, item) EXCEPT
                             !.outcome = out,
                             !.value = IF out = "value" THEN v ELSE Absent,
                             !.module = r.value, !.loadCalled = TRUE, !.invoked = r.invoked,
                             !.wrote = r.wrote]
               /\ accessed' = IF out = "value" THEN accessed \cup {p}
                              ELSE accessed
    /\ calls' = calls + 1
    /\ UNCHANGED created

\* dir(proxy): LazyLoader.__dir__
ListAttributes(p, body) ==
    /\ calls < MaxCalls
    /\ p \in created
    /\ LET r == _load(p, body) IN
         /\ Loaded(p, r)
         /\ last' = [CallOn("listAttributes", p, Absent) EXCEPT
                       !.outcome = r.outcome,
                       !.names = IF r.outcome = "value"
                                 THEN DirOf(r.value, r.md) ELSE {},
                       !.module = r.value, !.loadCalled = TRUE, !.invoked = r.invoked,
                       !.wrote = r.wrote]
         /\ accessed' = IF r.outcome = "value" THEN accessed \cup {p}
                        ELSE accessed
    /\ calls' = calls + 1
    /\ UNCHANGED created

\* A __repr__ that loads the module before describing it.
Describe_loading(p) ==
    /\ calls < MaxCalls
    /\ p \in created
    /\ \E b \in BodyChoices(pdict[p]["__name__"]) :
         LET r == _load(p, b) IN
           /\ Loaded(p, r)
           /\ last' = [CallOn("describe", p, Absent) EXCEPT
                         !.outcome = "value",
                         !.value = IF r.outcome = "value" THEN r.value
                                   ELSE "NotLoadedYet",
                         !.invoked = r.invoked, !.wrote = r.wrote]
    /\ calls' = calls + 1
    /\ UNCHANGED <<created, accessed>>

\* repr(proxy): LazyLoader.__repr__
Describe(p) ==
    /\ calls < MaxCalls
    /\ p \in created
    /\ last' = [CallOn("describe", p, Absent) EXCEPT
                  !.outcome = "value", !.value = describe(p)]
    /\ calls' = calls + 1
    /\ UNCHANGED <<registry, moddict, targetNamespace, pdict, created, first,
                   loadedAs, accessed, deferred>>

\* ------------------------------------------------------- the environment
\* The program imports a module itself: importlib.import_module(n).  The
\* record notes the armed module whose deferred body the call ran, if any.
DirectImport(n, body) ==
    /\ calls < MaxCalls
    /\ LET imp == import_module(n, body) IN
         /\ registry' = imp.reg
         /\ moddict' = imp.md
         /\ deferred' = imp.df
         /\ last' = [NoCall EXCEPT !.op = "import", !.modname = n,
                       !.outcome = IF imp.ok THEN "value" ELSE imp.err,
                       !.value = imp.module, !.invoked = TRUE,
                       !.module = IF registry[n] \in deferred
                                  THEN registry[n] ELSE Absent,
                       !.ranBody = (registry[n] \in deferred)]
    /\ calls' = calls + 1
    /\ UNCHANGED <<targetNamespace, pdict, created, first, loadedAs, accessed>>

\* The program sets or deletes an attribute of a loaded module:
\* module.zeros = v, del module.zeros.
SetAttr(o, v) ==
    /\ calls < MaxCalls
    /\ moddict[o]["__name__"] # Absent
    /\ moddict[o]["zeros"] # v
    /\ moddict' = [moddict EXCEPT ![o]["zeros"] = v]
    /\ last' = [NoCall EXCEPT !.op = "setattr", !.item = "zeros", !.value = v]
    /\ calls' = calls + 1
    /\ UNCHANGED <<registry, targetNamespace, pdict, created, first, loadedAs,
                   accessed, deferred>>

\* Proxies are interchangeable objects: p is the first one constructed.
NextProxy == IF "p" \in created THEN "q" ELSE "p"

Next ==
    \/ \E l \in BindNames, n \in ModNames :
          Create(NextProxy, l, n) /\ UNCHANGED <<utilLoaded, threadVars>>
    \/ \E p \in created : \E b \in BodyChoices(pdict[p]["__name__"]) :
          Resolve(p, b) /\ UNCHANGED <<utilLoaded, threadVars>>
    \/ \E p \in created, i \in ReadNames :
          \E b \in BodyChoices(pdict[p]["__name__"]) :
             GetAttribute(p, i, b) /\ UNCHANGED <<utilLoaded, threadVars>>
    \/ \E p \in created : \E b \in BodyChoices(pdict[p]["__name__"]) :
          ListAttributes(p, b) /\ UNCHANGED <<utilLoaded, threadVars>>
    \/ \E p \in created : Describe(p) /\ UNCHANGED <<utilLoaded, threadVars>>
    \/ \E n \in ModNames : \E b \in BodyChoices(n) :
          DirectImport(n, b) /\ UNCHANGED <<utilLoaded, threadVars>>
    \/ \E o \in Objs, v \in Vals \cup {Absent} :
          SetAttr(o, v) /\ UNCHANGED <<utilLoaded, threadVars>>

Spec == Init /\ [][Next]_vars

\* ================================================================ claims

\* C1: describe() called before any attribute access reports the 'not
\* loaded' tag, and describe() called once __getattr__ or __dir__ has
\* returned a value no longer reports it.
C1_DescribeTracksLoading ==
    \A p \in created :
        /\ (p \notin accessed /\ first[p] = Absent)
              => describe(p) = "NotLoadedYet"
        /\ p \in accessed => describe(p) # "NotLoadedYet"

\* C2: a proxy is loaded at most once: a call of _load made after one _load
\* of the same proxy has succeeded does not invoke import_module and does
\* not write the namespace, sys.modules or the proxy's __dict__ again.
C2_LoadedAtMostOnce ==
    (last.loadCalled /\ last.hadLoaded) => (~last.invoked /\ ~last.wrote)

\* C3: every successful resolve() of a proxy returns the module object its
\* first successful resolve() returned, whatever happened in between.
C3_ResolveIdempotent ==
    (last.op = "resolve" /\ last.outcome = "value")
        => last.value = first[last.p]

\* The value a direct import of name n gives for item once n is in
\* sys.modules: import n; n.<item>.
DirectRead(n, item) == moddict[registry[n]][item]

ProxyCalls == {"resolve", "getAttribute", "listAttributes"}

\* C4 as stated: in every state after a successful load of a proxy, the
\* namespace entry and the sys.modules entry for its binding name are the
\* module that load returned.
C4_BindingAlwaysLoadedModule ==
    \A p \in created :
        loadedAs[p].mod # Absent
            => /\ targetNamespace[loadedAs[p].key] = loadedAs[p].mod
               /\ registry[loadedAs[p].key] = loadedAs[p].mod

C4_AfterLoadInv ==
    last.wrote
        => /\ last.module \in Objs
           /\ targetNamespace[last.binding] = last.module
           /\ registry[last.binding] = last.module

C4_OnlyLoadBinds ==
    targetNamespace' # targetNamespace
        => /\ last'.op \in ProxyCalls
           /\ last'.wrote
           /\ first'[last'.p] # Absent

\* C4 (amended): in the state a loading _load leaves, the namespace entry and
\* the sys.modules entry for the binding name the proxy had when it was called
\* are both the module _load returned; the namespace changes in no step but
\* such a load, so a proxy that has not loaded has bound nothing.
C4_BindingAfterLoad == []C4_AfterLoadInv /\ [][C4_OnlyLoadBinds]_vars

C4_Witness ==
    /\ last.op = "getAttribute" /\ last.wrote
    /\ last.binding = "x" /\ last.modname = "a"
    /\ targetNamespace["x"] = "mod_a" /\ registry["x"] = "mod_a"

\* C5 as stated: whenever a name the real module has is read through the
\* proxy, the read gives the value a direct import gives at that moment.
C5_ReadEqualsDirectRead ==
    (/\ last.op = "getAttribute"
     /\ registry[last.modname] # Absent
     /\ DirectRead(last.modname, last.item) # Absent)
        => /\ last.outcome = "value"
           /\ last.value = DirectRead(last.modname, last.item)

\* C5 (amended): a read of a name that is not in the proxy's own __dict__,
\* made while the proxy's _module field is empty, gives the value a direct
\* import of the proxy's __name__ gives at that moment; a name that is in the
\* proxy's own __dict__ is answered from it without any load.
C5_MissReadsModule ==
    /\ (/\ last.op = "getAttribute" /\ ~last.inTable /\ ~last.cached
        /\ registry[last.modname] # Absent
        /\ DirectRead(last.modname, last.item) # Absent)
          => /\ last.outcome = "value"
             /\ last.value = DirectRead(last.modname, last.item)
    /\ (last.op = "getAttribute" /\ last.inTable)
          => /\ last.outcome = "value"
             /\ last.value = pdict[last.p][last.item]
             /\ ~last.loadCalled

C5_Witness ==
    /\ last.op = "getAttribute" /\ last.loadCalled /\ last.hadLoaded
    /\ last.item = "zeros" /\ last.outcome = "value" /\ last.value \in Vals

C6_CreateStep ==
    \A p \in Proxies :
        (p \notin created /\ p \in created')
            => /\ registry' = registry
               /\ moddict' = moddict
               /\ targetNamespace' = targetNamespace
               /\ ~last'.invoked
               /\ pdict'[p]["_module"] = None
               /\ pdict'[p]["_local_name"] = last'.binding
               /\ pdict'[p]["__name__"] = last'.modname
               /\ pdict'[p]["_parent_module_globals"] = "ns"
               /\ pdict'[p]["zeros"] = Absent
               /\ \A q \in Proxies \ {p} : pdict'[q] = pdict[q]

\* C6: constructing a proxy imports nothing: the step leaves sys.modules, the
\* module dicts and the namespace unchanged and only gives the new proxy its
\* three fields and an empty _module.
C6_CreateImportsNothing == [][C6_CreateStep]_vars

C6_Witness ==
    /\ last.op = "create" /\ last.p = "q"
    /\ Disk(last.modname) = "ok" /\ registry[last.modname] = Absent
    /\ targetNamespace[last.binding] = Absent
    /\ pdict["q"]["_module"] = None

C7_DescribeStep ==
    last'.op = "describe"
        => /\ registry' = registry
           /\ moddict' = moddict
           /\ targetNamespace' = targetNamespace
           /\ pdict' = pdict
           /\ ~last'.invoked /\ ~last'.loadCalled

\* C7: describe() never loads: the step leaves the proxy's __dict__ (with
\* _module), the namespace, sys.modules and the module dicts unchanged and
\* does not call the import mechanism.
C7_DescribeLoadsNothing == [][C7_DescribeStep]_vars

C7_Witness ==
    /\ last.op = "describe" /\ last.value = "NotLoadedYet"
    /\ Disk(last.modname) = "ok" /\ registry[last.modname] = Absent

\* C8: when the import made for an attribute access fails, the access raises
\* exactly the error the import mechanism raised, returns no value and
\* writes nothing.
C8_ImportErrorPropagates ==
    (/\ last.op \in {"getAttribute", "listAttributes"}
     /\ last.invoked
     /\ registry[last.modname] = Absent)
        => /\ last.outcome = IF Disk(last.modname) = "raises"
                             THEN "BodyError" ELSE "ModuleNotFoundError"
           /\ last.value = Absent
           /\ last.names = {}
           /\ ~last.wrote

C8_Witness ==
    /\ last.op = "getAttribute" /\ last.invoked
    /\ last.modname = "f" /\ last.outcome = "BodyError"

\* C9 as stated: a read through the proxy raises AttributeError exactly
\* when the directly imported module lacks the name.
C9_ErrorIffModuleLacks ==
    (last.op = "getAttribute" /\ registry[last.modname] # Absent)
        => (last.outcome = "AttributeError"
              <=> DirectRead(last.modname, last.item) = Absent)

\* C9 (amended): a read of a name that is not in the proxy's own __dict__,
\* made while the proxy's _module field is empty and with the import
\* succeeding, raises AttributeError exactly when the module imported under
\* the proxy's __name__ lacks the name.
C9_MissErrorIffModuleLacks ==
    (/\ last.op = "getAttribute" /\ ~last.inTable /\ ~last.cached
     /\ registry[last.modname] # Absent)
        => (last.outcome = "AttributeError"
              <=> DirectRead(last.modname, last.item) = Absent)

C9_Witness ==
    /\ last.op = "getAttribute" /\ last.loadCalled /\ ~last.cached
    /\ last.outcome = "AttributeError" /\ last.item = "zeros"
    /\ registry[last.modname] \in Objs

C10_NameStep ==
    \A p \in created : pdict'[p]["__name__"] = pdict[p]["__name__"]

\* C10: no operation changes the __name__ of a constructed proxy.
C10_ModuleNameImmutable == [][C10_NameStep]_vars

\* ============================================================ lazy_import
\* importlib.util.module_from_spec(spec): the __dict__ of a module whose
\* body has not run.
PreExecDict(n) ==
    [k \in Attrs |->
       CASE k = "__name__" -> n
         [] k = "__doc__"  -> None
         [] OTHER          -> Absent]

\* lazy_import without the sys.modules check of lines 17-18.
lazy_import_unchecked(fullname, body) ==
    IF ~utilLoaded \/ Disk(fullname) = "missing"
    THEN [outcome |-> "AttributeError", value |-> Absent, invoked |-> TRUE,
          reg |-> registry, md |-> moddict, df |-> deferred]
    ELSE [outcome |-> "value", value |-> ObjOf(fullname), invoked |-> TRUE,
          reg |-> [registry EXCEPT ![fullname] = ObjOf(fullname)],
          md |-> [moddict EXCEPT ![ObjOf(fullname)] = PreExecDict(fullname)],
          df |-> deferred \cup {ObjOf(fullname)}]

\* lazy_import(fullname): the registered module when there is one (lines
\* 17-18).  Otherwise line 20 reads importlib.util, and the file only does
\* `import importlib`: unless other code has imported importlib.util the read
\* raises AttributeError and nothing is created.  With importlib.util there,
\* find_spec gives None for an unknown name and spec.loader raises
\* AttributeError; otherwise the module is created from the spec, registered,
\* and handed to importlib.util.LazyLoader.exec_module, which only arms it:
\* the body runs at the first attribute access.  body is not used here.
lazy_import(fullname, body) ==
    IF registry[fullname] # Absent
    THEN [outcome |-> "value", value |-> registry[fullname],
          invoked |-> FALSE, reg |-> registry, md |-> moddict,
          df |-> deferred]
    ELSE IF ~utilLoaded
    THEN [outcome |-> "AttributeError", value |-> Absent, invoked |-> TRUE,
          reg |-> registry, md |-> moddict, df |-> deferred]
    ELSE IF Disk(fullname) = "missing"
    THEN [outcome |-> "AttributeError", value |-> Absent, invoked |-> TRUE,
          reg |-> registry, md |-> moddict, df |-> deferred]
    ELSE [outcome |-> "value", value |-> ObjOf(fullname), invoked |-> TRUE,
          reg |-> [registry EXCEPT ![fullname] = ObjOf(fullname)],
          md |-> [moddict EXCEPT ![ObjOf(fullname)] = PreExecDict(fullname)],
          df |-> deferred \cup {ObjOf(fullname)}]

\* m = lazy_import(fullname)
LazyImport(fullname, body) ==
    /\ calls < MaxCalls
    /\ LET r == lazy_import(fullname, body) IN
         /\ registry' = r.reg
         /\ moddict' = r.md
         /\ deferred' = r.df
         /\ last' = [NoCall EXCEPT !.op = "lazyImport", !.modname = fullname,
                       !.outcome = r.outcome, !.value = r.value,
                       !.module = r.value, !.invoked = r.invoked,
                       !.hadLoaded = (registry[fullname] # Absent),
                       !.ranBody = (r.outcome = "BodyError"
                                    \/ (r.invoked /\ r.outcome = "value"
                                        /\ r.value \notin r.df))]
    /\ calls' = calls + 1
    /\ UNCHANGED <<utilLoaded, proxyVars, threadVars>>

\* Code outside this file runs `import importlib.util`, which binds the
\* submodule as the attribute util of the package importlib.
ImportUtil ==
    /\ ~utilLoaded
    /\ utilLoaded' = TRUE
    /\ last' = [NoCall EXCEPT !.op = "importUtil"]
    /\ UNCHANGED <<registry, moddict, deferred, calls, proxyVars, threadVars>>

\* module.<item> on a module object the program holds.  A module armed by
\* the lazy loader runs its body first (the body of f raises); after that it
\* is an ordinary module.
ModuleGetAttr(o, item, body) ==
    /\ calls < MaxCalls
    /\ moddict[o]["__name__"] # Absent
    /\ LET n == moddict[o]["__name__"]
           runs == o \in deferred
           fails == runs /\ Disk(n) = "raises"
           d == IF runs /\ ~fails THEN body ELSE moddict[o]
       IN /\ moddict' = [moddict EXCEPT ![o] = d]
          /\ deferred' = deferred \ {o}
          /\ last' = [NoCall EXCEPT !.op = "moduleGetAttr", !.item = item,
                        !.module = o, !.modname = n, !.ranBody = runs,
                        !.outcome = IF fails THEN "BodyError"
                                    ELSE IF d[item] = Absent
                                    THEN "AttributeError" ELSE "value",
                        !.value = IF fails THEN Absent ELSE d[item]]
    /\ calls' = calls + 1
    /\ UNCHANGED <<registry, utilLoaded, proxyVars, threadVars>>

\* The bodies the first access to an armed module can run.
DeferredBodies(o) ==
    IF o \in deferred /\ Disk(moddict[o]["__name__"]) = "ok"
    THEN Bodies(moddict[o]["__name__"]) ELSE {EmptyDict}

NextLazy ==
    \/ \E n \in ModNames : LazyImport(n, EmptyDict)
    \/ ImportUtil
    \/ \E o \in Objs, i \in {"zeros", "__doc__"} :
          \E b \in DeferredBodies(o) : ModuleGetAttr(o, i, b)
    \/ \E n \in ModNames : \E b \in BodyChoices(n) :
          DirectImport(n, b) /\ UNCHANGED <<utilLoaded, threadVars>>

SpecLazy == Init /\ [][NextLazy]_vars

\* C11: a lazy_import of a name that is in sys.modules returns exactly the
\* registered module without looking for a spec, and leaves sys.modules, the
\* module dicts and the armed modules as they were; every successful
\* lazy_import returns the module registered under the name, so two
\* successive calls return the identical object.
C11_RegisteredStep ==
    (last'.op = "lazyImport" /\ registry[last'.modname] # Absent)
        => /\ last'.outcome = "value"
           /\ last'.value = registry[last'.modname]
           /\ ~last'.invoked /\ ~last'.ranBody
           /\ registry' = registry
           /\ moddict' = moddict
           /\ deferred' = deferred

C11_ReturnsRegistered ==
    (last.op = "lazyImport" /\ last.outcome = "value")
        => registry[last.modname] = last.value

C11_LazyImportIdempotent ==
    []C11_ReturnsRegistered /\ [][C11_RegisteredStep]_vars

C11_Witness ==
    /\ last.op = "lazyImport" /\ last.hadLoaded /\ last.modname = "a"
    /\ last.value = "mod_a" /\ "mod_a" \in deferred

\* C12: a lazy_import of a name that is not in sys.modules and that the
\* import system can find creates the module, has it registered under the
\* name when the call ends, and has not run the module's body.
C12_CreatesAndRegisters ==
    (last.op = "lazyImport" /\ ~last.hadLoaded
       /\ Disk(last.modname) # "missing")
        => /\ last.outcome = "value"
           /\ registry[last.modname] = last.value
           /\ last.value \in deferred
           /\ ~last.ranBody

\* What does hold of lazy_import on a new name: a call that returns has
\* registered the module it returns, armed and with its body not run.
LazyCreatedInv ==
    (last.op = "lazyImport" /\ last.invoked /\ last.outcome = "value")
        => /\ registry[last.modname] = last.value
           /\ last.value \in deferred
           /\ moddict[last.value] = PreExecDict(last.modname)
           /\ ~last.ranBody

\* An armed module's body runs in the step of the first attribute access on
\* it, the program's own or the import system's read of __spec__, and in no
\* other step.
LazyBodyStep ==
    \A o \in Objs :
        /\ (o \in deferred /\ o \notin deferred')
              => /\ last'.op \in {"moduleGetAttr", "import"}
                 /\ last'.module = o
                 /\ last'.ranBody
        /\ (o \in deferred /\ last'.op \in {"moduleGetAttr", "import"}
              /\ last'.module = o)
              => /\ o \notin deferred'
                 /\ (moddict'[o] \in Bodies(moddict[o]["__name__"])
                       \/ last'.outcome = "BodyError")
        /\ (o \in deferred /\ o \in deferred') => moddict'[o] = moddict[o]

LazyBodyDeferred == []LazyCreatedInv /\ [][LazyBodyStep]_vars

\* =========================================== claims on the proxy, continued
\* The proxy's __dict__ holds what __init__ put there and nothing else.
OnlyIdentity(p) ==
    pdict[p] = InitDict(pdict[p]["_local_name"], pdict[p]["__name__"])

\* The proxy's __dict__ has every entry of module object o, same value.
Mirrors(p, o) ==
    \A k \in Attrs : moddict[o][k] # Absent => pdict[p][k] = moddict[o][k]

\* C13 as stated: in every state, a proxy that has not loaded holds only its
\* identity metadata and a proxy that has loaded holds every entry of the
\* loaded module's __dict__ with the same value.
C13_TableAlwaysMirrors ==
    \A p \in created :
        /\ loadedAs[p].mod = Absent => OnlyIdentity(p)
        /\ loadedAs[p].mod # Absent => Mirrors(p, loadedAs[p].mod)

\* C13 (amended): a proxy that has not loaded holds only its identity
\* metadata; in the state a loading _load leaves, the proxy's __dict__ has
\* every entry of the loaded module's __dict__ with the same value.
C13_TableMirrorsAfterLoad ==
    /\ \A p \in created : loadedAs[p].mod = Absent => OnlyIdentity(p)
    /\ last.wrote => Mirrors(last.p, last.module)

C13_Witness ==
    /\ last.op = "listAttributes" /\ last.wrote /\ last.hadLoaded
    /\ pdict[last.p]["zeros"] \in Vals
    /\ pdict[last.p]["__doc__"] = "doc"

\* C14: dir(proxy) calls _load and returns the directory listing of the
\* module a direct import of the proxy's __name__ gives.
C14_ListEqualsModuleDir ==
    (last.op = "listAttributes" /\ last.outcome = "value")
        => /\ last.loadCalled
           /\ registry[last.modname] \in Objs
           /\ last.names = DirOf(registry[last.modname], moddict)

ImportErrors == {"ModuleNotFoundError", "BodyError"}

C16_FailedStep ==
    (last'.op \in ProxyCalls /\ last'.outcome \in ImportErrors)
        => /\ pdict' = pdict
           /\ targetNamespace' = targetNamespace
           /\ registry' = registry
           /\ moddict' = moddict
           /\ first' = first /\ loadedAs' = loadedAs

C16_FailedInv ==
    (last.op \in ProxyCalls /\ last.outcome \in ImportErrors)
        => /\ ~Truthy(pdict[last.p]["_module"])
           /\ describe(last.p) = "NotLoadedYet"
           /\ ~last.wrote
           /\ \A b \in BodyChoices(pdict[last.p]["__name__"]) :
                 _load(last.p, b).invoked

\* C16: a _load whose import fails leaves the proxy's __dict__ (with
\* _module empty), the namespace, sys.modules and the module dicts as they
\* were, describe() still reports 'not loaded', and the next _load of the
\* proxy calls the import mechanism again.
C16_FailedLoadChangesNothing == []C16_FailedInv /\ [][C16_FailedStep]_vars

C16_Witness ==
    /\ last.op = "listAttributes" /\ last.outcome = "ModuleNotFoundError"
    /\ last.modname = "g" /\ last.binding = "x"
    /\ targetNamespace["x"] = Absent /\ registry["x"] = Absent
    /\ registry["a"] = "mod_a"

C17_WriteStep ==
    last'.op \in ProxyCalls
        => /\ \A k \in NsKeys \ {last'.binding} :
                 targetNamespace'[k] = targetNamespace[k]
           /\ \A k \in RegKeys \ {last'.binding} :
                 \/ registry'[k] = registry[k]
                 \/ /\ k = last'.modname /\ registry[k] = Absent
                    /\ last'.invoked /\ registry'[k] = last'.module
           /\ last'.wrote
                 => /\ targetNamespace'[last'.binding] = last'.module
                    /\ registry'[last'.binding] = last'.module
           /\ ~last'.wrote
                 => /\ targetNamespace' = targetNamespace
                    /\ registry' = registry

\* C17: a call on a proxy writes the namespace only under the proxy's
\* binding name and sys.modules only under the binding name, where the loaded
\* module replaces whatever was there; the one other sys.modules entry that
\* can change is the import mechanism's registration of a new module under
\* the module name.
C17_WritesOnlyBindingKey == [][C17_WriteStep]_vars

C17_Witness ==
    /\ last.op = "resolve" /\ last.wrote
    /\ last.binding = "a" /\ last.modname = "b"
    /\ registry["a"] = "mod_b" /\ moddict["mod_a"]["__name__"] # Absent
    /\ targetNamespace["a"] = "mod_b" /\ targetNamespace["keep"] = "v1"

\* ======================================= two threads in _load on one proxy
\* Each thread makes the first attribute access on proxy p and so runs
\* _load once, one statement per step.  import_module is one step: the
\* import system serialises imports of a name under its module lock.
NotInLoad == <<created, last, first, loadedAs, accessed, calls, utilLoaded>>

InitThreads ==
    /\ registry = [k \in RegKeys |-> Absent]
    /\ moddict = [o \in Objs |-> EmptyDict]
    /\ targetNamespace = [k \in NsKeys |-> IF k = "keep" THEN "v1" ELSE Absent]
    /\ \E l \in BindNames, n \in ModNames :
          /\ pdict = [p \in Proxies |->
                        IF p = "p" THEN InitDict(l, n) ELSE EmptyDict]
          /\ last = [NoCall EXCEPT !.op = "create", !.p = "p",
                                   !.modname = n, !.binding = l]
    /\ created = {"p"}
    /\ first = [p \in Proxies |-> Absent]
    /\ loadedAs = [p \in Proxies |-> [key |-> Absent, mod |-> Absent]]
    /\ accessed = {}
    /\ calls = 0
    /\ deferred = {}
    /\ utilLoaded = FALSE
    /\ pc = [t \in Threads |-> "check"]
    /\ tmod = [t \in Threads |-> Absent]
    /\ tpath = [t \in Threads |-> "none"]

\* line 46: if self._module: return self._module
TCheck(t) ==
    /\ pc[t] = "check"
    /\ IF Truthy(pdict["p"]["_module"])
       THEN /\ pc' = [pc EXCEPT ![t] = "done"]
            /\ tmod' = [tmod EXCEPT ![t] = pdict["p"]["_module"]]
            /\ tpath' = [tpath EXCEPT ![t] = "cached"]
       ELSE /\ pc' = [pc EXCEPT ![t] = "import"]
            /\ UNCHANGED <<tmod, tpath>>
    /\ UNCHANGED <<registry, moddict, targetNamespace, pdict, deferred,
                   NotInLoad>>

\* The import followed at once by self._module = module.
TImport_caches(t, body) ==
    /\ pc[t] = "import"
    /\ LET imp == import_module(pdict["p"]["__name__"], body) IN
         /\ registry' = imp.reg
         /\ moddict' = imp.md
         /\ deferred' = imp.df
         /\ tmod' = [tmod EXCEPT ![t] = imp.module]
         /\ pdict' = IF imp.ok
                     THEN [pdict EXCEPT !["p"]["_module"] = imp.module]
                     ELSE pdict
         /\ pc' = [pc EXCEPT ![t] = IF imp.ok THEN "bind" ELSE "done"]
         /\ tpath' = [tpath EXCEPT ![t] = IF imp.ok THEN "imported"
                                         ELSE "failed"]
    /\ UNCHANGED <<targetNamespace, NotInLoad>>

\* line 51: module = importlib.import_module(self.__name__)
TImport(t, body) ==
    /\ pc[t] = "import"
    /\ LET imp == import_module(pdict["p"]["__name__"], body) IN
         /\ registry' = imp.reg
         /\ moddict' = imp.md
         /\ deferred' = imp.df
         /\ tmod' = [tmod EXCEPT ![t] = imp.module]
         /\ pc' = [pc EXCEPT ![t] = IF imp.ok THEN "bind" ELSE "done"]
         /\ tpath' = [tpath EXCEPT ![t] = IF imp.ok THEN "imported"
                                         ELSE "failed"]
    /\ UNCHANGED <<targetNamespace, pdict, NotInLoad>>

\* line 52: self._parent_module_globals[self._local_name] = module
TBind(t) ==
    /\ pc[t] = "bind"
    /\ targetNamespace' =
          [targetNamespace EXCEPT ![pdict["p"]["_local_name"]] = tmod[t]]
    /\ pc' = [pc EXCEPT ![t] = "register"]
    /\ tpath' = [tpath EXCEPT ![t] = "bound"]
    /\ UNCHANGED <<registry, moddict, pdict, tmod, deferred, NotInLoad>>

\* line 53: sys.modules[self._local_name] = module
TRegister(t) ==
    /\ pc[t] = "register"
    /\ registry' = [registry EXCEPT ![pdict["p"]["_local_name"]] = tmod[t]]
    /\ pc' = [pc EXCEPT ![t] = "update"]
    /\ tpath' = [tpath EXCEPT ![t] = "registered"]
    /\ UNCHANGED <<moddict, targetNamespace, pdict, tmod, deferred,
                   NotInLoad>>

\* lines 57-59: self.__dict__.update(module.__dict__); return module
TUpdate(t) ==
    /\ pc[t] = "update"
    /\ pdict' = [pdict EXCEPT
                   !["p"] = DictUpdate(pdict["p"], moddict[tmod[t]])]
    /\ pc' = [pc EXCEPT ![t] = "done"]
    /\ tpath' = [tpath EXCEPT ![t] = "updated"]
    /\ UNCHANGED <<registry, moddict, targetNamespace, tmod, deferred,
                   NotInLoad>>

NextThreads ==
    \/ \E t \in Threads : TCheck(t)
    \/ \E t \in Threads : \E b \in BodyChoices(pdict["p"]["__name__"]) :
          TImport(t, b)
    \/ \E t \in Threads : TBind(t)
    \/ \E t \in Threads : TRegister(t)
    \/ \E t \in Threads : TUpdate(t)

SpecThreads == InitThreads /\ [][NextThreads]_vars

InLoad == {"import", "bind", "register", "update"}

C15_CacheEmptyWhileLoading ==
    \A t \in Threads : \A u \in Threads \ {t} :
        (pc[t] \in InLoad /\ pc[u] = "check")
            => ~Truthy(pdict["p"]["_module"])

C15_CheckStep ==
    \A t \in Threads :
        (pc[t] = "check" /\ pc'[t] # "check"
           /\ ~Truthy(pdict["p"]["_module"]))
            => pc'[t] = "import"

\* C15: _load has no one-time-initialisation guard: while one thread is
\* inside the load the cache field is still empty, and a thread that runs the
\* check with the cache field empty goes on to the import wherever the other
\* thread stands; so both threads can import and both can write.
C15_NoInitGuard == []C15_CacheEmptyWhileLoading /\ [][C15_CheckStep]_vars

C15_Witness ==
    /\ \A t \in Threads : pc[t] = "done" /\ tpath[t] = "updated"
    /\ \A t \in Threads : tmod[t] = "mod_a"
    /\ last.binding = "x" /\ last.modname = "a"
    /\ targetNamespace["x"] = "mod_a" /\ registry["x"] = "mod_a"

\* C18: once both threads have returned from _load without an import error,
\* both hold the identical module object and the namespace entry and the
\* sys.modules entry for the proxy's binding name are that object.
C18_RaceIsBenign ==
    (\A t \in Threads : pc[t] = "done" /\ tpath[t] # "failed")
        => /\ tmod["t1"] = tmod["t2"]
           /\ tmod["t1"] \in Objs
           /\ targetNamespace[last.binding] = tmod["t1"]
           /\ registry[last.binding] = tmod["t1"]

====
